---- MODULE Spec2Model ----
(***************************************************************************)
(* A model of the trainable-component base class (nes/base/__init__.py)    *)
(* and of the word-vector encoder (gnes/encoder/w2v.py).                   *)
(*                                                                         *)
(* A Python object is its class together with its attribute dictionary     *)
(* (__dict__), a function from attribute names to values.  A dict is a     *)
(* function whose domain is its key set; the empty dict is <<>>.           *)
(***************************************************************************)
EXTENDS Integers, Sequences, FiniteSets, TLC

VARIABLES
    objs,          \* slot 1: the component built by a constructor call; slot 2: the one built by a load
    inits,         \* number of __init__ invocations made on the component of slot 1
    doc,           \* the structured (yaml) file
    pkl,           \* the binary (pickle) file
    last,          \* the last call: operation, target, outcome and inputs
    enc            \* the encoder alone: its attributes, the vector file at model_dir, its last call

vars == <<objs, inits, doc, pkl, last, enc>>

\* ---------------------------------------------------------------- bounds
MaxPos == 2        \* longest positional argument list of a constructor call
MaxInits == 2      \* __init__ invocations on one instance
MaxLines == 2      \* lines of a vector file
MaxFields == 3     \* fields of a line of a vector file
MaxTexts == 2      \* strings of an encode batch
MaxTokens == 2     \* tokens of a string
MaxSkip == 1       \* largest skiprows of the encoder
MaxDim == 2        \* largest dimension of the encoder
MaxLinesPickle == 1 \* lines of a vector file where the binary files are modelled

\* ---------------------------------------------------------------- Python values
None == -1                       \* the value None (no parameter value of the model is negative)
EmptyDefault == "<empty>"        \* inspect.Parameter.empty, the default of a required parameter

Update(d, t) == [k \in (DOMAIN d) \cup (DOMAIN t) |-> IF k \in DOMAIN t THEN t[k] ELSE d[k]]

Without(d, ks) == [k \in (DOMAIN d) \ ks |-> d[k]]

Only(d, ks) == [k \in (DOMAIN d) \cap ks |-> d[k]]

Put(d, k, v) == Update(d, [x \in {k} |-> v])

\* ---------------------------------------------------------------- classes
\* TrainableType.default_property
default_property == [is_trained |-> FALSE, batch_size |-> None]

PropertyNames == {"is_trained", "batch_size"}

\* A class is its name and its store_args_kwargs attribute; TrainableBase declares False,
\* a subclass may override it.  BaseEncoder is the encoder's parent class: a direct
\* subclass of TrainableBase that defines neither __init__ nor train nor __getstate__.
Classes ==
    {[name |-> "TrainableBase", store_args_kwargs |-> FALSE]}
    \cup {[name |-> n, store_args_kwargs |-> s] : n \in {"BaseEncoder", "Word2VecEncoder"}, s \in BOOLEAN}

\* Number of _as_train_func wrappers around train: TrainableType.__new__ wraps getattr(cls, 'train'),
\* which for a class that inherits train is the parent's already wrapped function.
TrainDepth(name) ==
    CASE name = "TrainableBase" -> 1
      [] name = "BaseEncoder" -> 2
      [] name = "Word2VecEncoder" -> 3

\* Declared parameters of __init__ without 'self', 'args', 'kwargs', in order.
BaseParams == <<>>

W2VParams == <<"model_dir", "skiprows", "batch_size", "dimension", "pooling_strategy">>

W2VDefaults ==
    [model_dir |-> EmptyDefault, skiprows |-> 1, batch_size |-> 64, dimension |-> 300,
     pooling_strategy |-> "REDUCE_MEAN"]

Names(ps) == {ps[i] : i \in 1..Len(ps)}

IndexOf(ps, k) == CHOOSE i \in 1..Len(ps) : ps[i] = k

\* ---------------------------------------------------------------- construction-argument capture
\* A faulty capture: a later capture replaces the stored dict instead of being merged into it.
StoreInitKwargsReplace(self, ps, defaults, store, args, kwargs) ==
    LET tmp0 == [k \in Names(ps) |->
                    IF k \in DOMAIN kwargs THEN kwargs[k]
                    ELSE IF IndexOf(ps, k) <= Len(args) THEN args[IndexOf(ps, k)]
                    ELSE defaults[k]]
        tmp1 == IF store /\ args # <<>> THEN Put(tmp0, "args", args) ELSE tmp0
        tmp  == IF store /\ DOMAIN kwargs # {} THEN Put(tmp1, "kwargs", kwargs) ELSE tmp1
    IN  Put(self, "_init_kwargs_dict", tmp)

\* TrainableType._store_init_kwargs, the part before the call of the wrapped __init__.
\* self is the instance's __dict__; store is self.store_args_kwargs.
StoreInitKwargs(self, ps, defaults, store, args, kwargs) ==
    LET tmp0 == [k \in Names(ps) |->
                    IF k \in DOMAIN kwargs THEN kwargs[k]
                    ELSE IF IndexOf(ps, k) <= Len(args) THEN args[IndexOf(ps, k)]
                    ELSE defaults[k]]
        tmp1 == IF store /\ args # <<>> THEN Put(tmp0, "args", args) ELSE tmp0
        tmp  == IF store /\ DOMAIN kwargs # {} THEN Put(tmp1, "kwargs", kwargs) ELSE tmp1
    IN  IF "_init_kwargs_dict" \in DOMAIN self /\ DOMAIN self["_init_kwargs_dict"] # {}
        THEN Put(self, "_init_kwargs_dict", Update(self["_init_kwargs_dict"], tmp))
        ELSE Put(self, "_init_kwargs_dict", tmp)

set_logger(name, verbose) == [name |-> name, verbose |-> verbose]

MemoryCache == [cache_path |-> ".nes_cache"]

\* TrainableBase.__init__ (the body).
TrainableBaseInit(self, name, args, kwargs) ==
    LET verbose == "verbose" \in DOMAIN kwargs /\ kwargs["verbose"]
    IN  Update(self, [is_trained |-> FALSE, verbose |-> verbose,
                      logger |-> set_logger(name, verbose), memcached |-> MemoryCache])

\* TrainableBase.__init__ as the class sees it: one capture wrapper per class of the chain
\* that does not define __init__ itself (each wraps the inherited, already wrapped, function).
WrappedBaseInit(self, cls, wrappers, args, kwargs) ==
    LET s1 == StoreInitKwargs(self, BaseParams, <<>>, cls.store_args_kwargs, args, kwargs)
        s2 == IF wrappers = 2
              THEN StoreInitKwargs(s1, BaseParams, <<>>, cls.store_args_kwargs, args, kwargs)
              ELSE s1
    IN  TrainableBaseInit(s2, cls.name, args, kwargs)

\* Python's binding of a call to Word2VecEncoder.__init__'s signature: TypeError when a
\* parameter gets a positional and a keyword value, or when model_dir gets none.
W2VBindError(args, kwargs) ==
    \/ \E i \in 1..Len(W2VParams) : i <= Len(args) /\ W2VParams[i] \in DOMAIN kwargs
    \/ Len(args) = 0 /\ "model_dir" \notin DOMAIN kwargs

W2VBound(args, kwargs) ==
    [k \in Names(W2VParams) |->
        IF IndexOf(W2VParams, k) <= Len(args) THEN args[IndexOf(W2VParams, k)]
        ELSE IF k \in DOMAIN kwargs THEN kwargs[k]
        ELSE W2VDefaults[k]]

RestArgs(args) == IF Len(args) > Len(W2VParams) THEN SubSeq(args, Len(W2VParams) + 1, Len(args)) ELSE <<>>

RestKwargs(kwargs) == Without(kwargs, Names(W2VParams))

\* Word2VecEncoder.__init__ (the body), after a successful binding.
W2VInit(self, cls, args, kwargs) ==
    LET b  == W2VBound(args, kwargs)
        s1 == WrappedBaseInit(self, cls, 2, RestArgs(args), RestKwargs(kwargs))
    IN  Update(s1, [model_dir |-> b["model_dir"], skiprows |-> b["skiprows"],
                    batch_size |-> b["batch_size"], pooling_strategy |-> b["pooling_strategy"],
                    is_trained |-> TRUE, dimension |-> b["dimension"]])

\* cls.__init__(self, *args, **kwargs): the captured dict is stored before the wrapped
\* function is called, so it is stored also when that call raises.
CallInit(self, cls, args, kwargs) ==
    IF cls.name = "Word2VecEncoder"
    THEN LET s1 == StoreInitKwargs(self, W2VParams, W2VDefaults, cls.store_args_kwargs, args, kwargs)
         IN  IF W2VBindError(args, kwargs)
             THEN [err |-> TRUE, self |-> s1]
             ELSE [err |-> FALSE, self |-> W2VInit(s1, cls, args, kwargs)]
    ELSE [err |-> FALSE,
          self |-> WrappedBaseInit(self, cls, IF cls.name = "BaseEncoder" THEN 2 ELSE 1, args, kwargs)]

\* TrainableType.__call__: construct, then give every default property the object lacks.
TypeCall(cls, args, kwargs) ==
    LET r == CallInit(<<>>, cls, args, kwargs)
    IN  IF r.err THEN r
        ELSE [err |-> FALSE,
              self |-> Update([k \in PropertyNames |-> default_property[k]], r.self)]

\* ---------------------------------------------------------------- training
\* A faulty arg_wrapper: marks the component trained before the wrapped function has returned.
ArgWrapperEager(self, f) ==
    [self |-> Put(f.self, "is_trained", TRUE),
     warnings |-> f.warnings + (IF self["is_trained"] THEN 1 ELSE 0), err |-> f.err]

\* One arg_wrapper of TrainableType._as_train_func: self is the __dict__ on entry, f the
\* outcome of the wrapped function (the __dict__ it leaves, the warnings it logged, whether
\* it raised).
ArgWrapper(self, f) ==
    LET w == IF self["is_trained"] THEN 1 ELSE 0
    IN  IF f.err
        THEN [self |-> f.self, warnings |-> f.warnings + w, err |-> TRUE]
        ELSE [self |-> Put(f.self, "is_trained", TRUE), warnings |-> f.warnings + w, err |-> FALSE]

\* cls.train: depth arg_wrappers around the class's train function; raises says whether
\* that function raises.
RECURSIVE AsTrainFunc(_, _, _)
AsTrainFunc(self, depth, raises) ==
    IF depth = 0
    THEN [self |-> self, warnings |-> 0, err |-> raises]
    ELSE ArgWrapper(self, AsTrainFunc(self, depth - 1, raises))

\* A faulty guard: the wrapped function runs whatever the flag says.
TrainRequiredAlways(self) == TRUE

\* TrainableBase._train_required: does the wrapped function run.
TrainRequired(self) == self["is_trained"]

\* ---------------------------------------------------------------- structured serialization
\* A faulty dump: every whitelisted property is written, default or not.
DumpInstanceToYamlAll(self) ==
    LET p == [k \in PropertyNames |-> self[k]]
        a == self["_init_kwargs_dict"]
        r1 == IF DOMAIN a # {} THEN [x \in {"parameter"} |-> a] ELSE <<>>
    IN  Put(r1, "property", p)

\* TrainableBase._dump_instance_to_yaml
DumpInstanceToYaml(self) ==
    LET p == [k \in {x \in PropertyNames : self[x] # default_property[x]} |-> self[k]]
        a == self["_init_kwargs_dict"]
        r1 == IF DOMAIN a # {} THEN [x \in {"parameter"} |-> a] ELSE <<>>
    IN  IF DOMAIN p # {} THEN Put(r1, "property", p) ELSE r1

Get(d, k, dflt) == IF k \in DOMAIN d THEN d[k] ELSE dflt

\* TrainableBase._get_instance_from_yaml: data is the mapping of the document.
GetInstanceFromYaml(cls, data) ==
    LET p == Get(data, "parameter", <<>>)
        a == Get(p, "args", <<>>)
        k == Get(p, "kwargs", <<>>)
        r == IF cls.store_args_kwargs
             THEN TypeCall(cls, a, Update(k, Without(p, {"args", "kwargs"})))
             ELSE TypeCall(cls, <<>>, p)
    IN  IF r.err THEN r
        ELSE [err |-> FALSE, self |-> Update(r.self, Get(data, "property", <<>>))]


\* ---------------------------------------------------------------- binary serialization
\* TrainableBase.__getstate__ and Word2VecEncoder.__getstate__: del d[k] raises KeyError
\* when the key is absent.
GetState(cls, self) ==
    LET d == Without(self, {"logger", "memcached"})
    IN  IF {"logger", "memcached"} \subseteq DOMAIN self
        THEN IF cls.name = "Word2VecEncoder"
             THEN IF {"word2vec_df", "empty"} \subseteq DOMAIN d
                  THEN [err |-> FALSE, d |-> Without(d, {"word2vec_df", "empty"})]
                  ELSE [err |-> TRUE, d |-> <<>>]
             ELSE [err |-> FALSE, d |-> d]
        ELSE [err |-> TRUE, d |-> <<>>]

\* TrainableBase.__setstate__ on the fresh instance pickle creates (empty __dict__).
SetState(cls, d) ==
    Update(d, [logger |-> set_logger(cls.name, d["verbose"]), memcached |-> MemoryCache])

\* ---------------------------------------------------------------- the word-vector table
\* Fields of a line of the vector file, as line.strip().split(' ') yields them.
Fields == {"a", "1"}

IsFloat(s) == s \in {"1"}

Float(s) == CASE s = "1" -> 1

RECURSIVE LinesOf(_)
LinesOf(n) ==
    IF n = 0 THEN {<<>>}
    ELSE LinesOf(n - 1) \cup {Append(l, f) : l \in {t \in LinesOf(n - 1) : Len(t) = n - 1}, f \in Fields}

Lines == LinesOf(MaxFields) \ {<<>>}

RECURSIVE FilesOf(_)
FilesOf(n) ==
    IF n = 0 THEN {<<>>}
    ELSE FilesOf(n - 1) \cup {Append(f, l) : f \in {t \in FilesOf(n - 1) : Len(t) = n - 1}, l \in Lines}

Zeros(n) == [i \in 1..n |-> 0]

\* The loop of Word2VecEncoder._post_init over f.readlines(); float() raises ValueError
\* on a field that is not a number.
RECURSIVE ReadLines(_, _, _, _, _)
ReadLines(lines, count, skiprows, dimension, df) ==
    IF lines = <<>> THEN [err |-> FALSE, df |-> df]
    ELSE LET line == Head(lines)
         IN  IF count < skiprows
             THEN ReadLines(Tail(lines), count + 1, skiprows, dimension, df)
             ELSE IF Len(line) > dimension
                  THEN IF \E i \in 2..Len(line) : ~IsFloat(line[i])
                       THEN [err |-> TRUE, df |-> df]
                       ELSE ReadLines(Tail(lines), count, skiprows, dimension,
                                      Put(df, line[1], [i \in 1..(Len(line) - 1) |-> Float(line[i + 1])]))
                  ELSE ReadLines(Tail(lines), count, skiprows, dimension, df)

\* Word2VecEncoder._post_init: readable is whether open(self.model_dir) succeeds,
\* file is the content it reads.
PostInitOf(self, readable, file) ==
    LET s0 == Put(self, "word2vec_df", <<>>)
        r  == ReadLines(file, 0, self["skiprows"], self["dimension"], <<>>)
        s1 == Put(s0, "word2vec_df", r.df)
    IN  IF ~readable THEN [err |-> "IOError", self |-> s0]
        ELSE IF r.err THEN [err |-> "ValueError", self |-> s1]
        ELSE [err |-> "ok", self |-> Put(s1, "empty", Zeros(self["dimension"]))]

\* ---------------------------------------------------------------- encoding
Tokens == {"a", "z"}

RECURSIVE SeqsOf(_, _)
SeqsOf(S, n) ==
    IF n = 0 THEN {<<>>}
    ELSE SeqsOf(S, n - 1) \cup {Append(s, x) : s \in {t \in SeqsOf(S, n - 1) : Len(t) = n - 1}, x \in S}

TokenLists == SeqsOf(Tokens, MaxTokens)

Batches == SeqsOf(TokenLists, MaxTexts)

RECURSIVE SumAt(_, _, _)
SumAt(vs, j, n) == IF n = 0 THEN 0 ELSE vs[n][j] + SumAt(vs, j, n - 1)

NaN == [sum |-> <<>>, n |-> 0]

\* np.mean(_pool, axis=0): the elementwise sum and the count it is divided by; NaN for an
\* empty list.
Mean(vs) ==
    IF vs = <<>> THEN NaN
    ELSE [sum |-> [j \in 1..Len(vs[1]) |-> SumAt(vs, j, Len(vs))], n |-> Len(vs)]

Homogeneous(vs) == \A i \in 1..Len(vs) : Len(vs[i]) = Len(vs[1])

\* Word2VecEncoder.encode on the token lists the tokenizer returns for the batch.
\* It never returns: the last line calls ndarray.astye, which does not exist.
Encode(self, batch_tokens) ==
    LET layer(tokens) == [i \in 1..Len(tokens) |->
                             IF tokens[i] \in DOMAIN self["word2vec_df"]
                             THEN self["word2vec_df"][tokens[i]] ELSE self["empty"]]
        pooled == [b \in 1..Len(batch_tokens) |-> Mean(layer(batch_tokens[b]))]
        hasToken == \E b \in 1..Len(batch_tokens) : batch_tokens[b] # <<>>
    IN  IF hasToken /\ ~({"word2vec_df", "empty"} \subseteq DOMAIN self)
        THEN [err |-> "AttributeError", returned |-> FALSE, out |-> <<>>]
        ELSE IF \E b \in 1..Len(batch_tokens) : ~Homogeneous(layer(batch_tokens[b]))
        THEN [err |-> "ValueError", returned |-> FALSE, out |-> <<>>]
        ELSE IF \E b, c \in 1..Len(batch_tokens) : Len(pooled[b].sum) # Len(pooled[c].sum)
        THEN [err |-> "ValueError", returned |-> FALSE, out |-> pooled]
        ELSE [err |-> "AttributeError", returned |-> FALSE, out |-> pooled]

\* ---------------------------------------------------------------- state
NoObj == [cls |-> [name |-> "none", store_args_kwargs |-> FALSE], d |-> <<>>]

NoFile == [cls |-> [name |-> "none", store_args_kwargs |-> FALSE], content |-> <<>>]

Exists(o) == o.cls.name # "none"

Call(op, id, result) ==
    [op |-> op, id |-> id, result |-> result, ran |-> FALSE, warnings |-> 0,
     args |-> <<>>, kwargs |-> <<>>]

\* Inputs: positional argument lists, typed by position.
PosVals(i) ==
    CASE i = 1 -> {"m1"}
      [] i = 2 -> {0}
      [] i = 3 -> {8}
      [] i = 4 -> {2}
      [] i = 5 -> {"REDUCE_MEAN"}
      [] OTHER -> {7}

RECURSIVE PosArgs(_)
PosArgs(n) ==
    IF n = 0 THEN {<<>>}
    ELSE PosArgs(n - 1) \cup {Append(s, v) : s \in {t \in PosArgs(n - 1) : Len(t) = n - 1}, v \in PosVals(n)}

\* Inputs: keyword arguments.
KwNames == {"model_dir", "verbose"}

KwArgs ==
    {Only(f, S) : f \in [model_dir : {"m2"}, verbose : {TRUE}], S \in SUBSET KwNames}

Init ==
    /\ objs = [i \in 1..2 |-> NoObj]
    /\ inits = 0
    /\ doc = NoFile
    /\ pkl = NoFile
    /\ last = Call("none", 0, "ok")
    /\ enc = <<>>

\* c = cls(*args, **kwargs)
Construct(cls, args, kwargs) ==
    /\ ~Exists(objs[1])
    /\ inits = 0
    /\ LET r == TypeCall(cls, args, kwargs)
       IN  /\ objs' = IF r.err THEN objs ELSE [objs EXCEPT ![1] = [cls |-> cls, d |-> r.self]]
           /\ inits' = IF r.err THEN inits ELSE 1
           /\ last' = [Call("construct", 1, IF r.err THEN "TypeError" ELSE "ok")
                          EXCEPT !.args = args, !.kwargs = kwargs]
    /\ UNCHANGED <<doc, pkl, enc>>

\* c.__init__(*args, **kwargs) on an existing component
Reinit(args, kwargs) ==
    /\ Exists(objs[1])
    /\ inits < MaxInits
    /\ LET r == CallInit(objs[1].d, objs[1].cls, args, kwargs)
       IN  /\ objs' = [objs EXCEPT ![1].d = r.self]
           /\ last' = [Call("init", 1, IF r.err THEN "TypeError" ELSE "ok")
                          EXCEPT !.args = args, !.kwargs = kwargs]
    /\ inits' = inits + 1
    /\ UNCHANGED <<doc, pkl, enc>>

\* c.train(): raises is whether the class's own train function raises
Train(i, raises) ==
    /\ Exists(objs[i])
    /\ LET r == AsTrainFunc(objs[i].d, TrainDepth(objs[i].cls.name), raises)
       IN  /\ objs' = [objs EXCEPT ![i].d = r.self]
           /\ last' = [Call("train", i, IF r.err THEN "Error" ELSE "ok")
                          EXCEPT !.warnings = r.warnings, !.ran = TRUE]
    /\ UNCHANGED <<inits, doc, pkl, enc>>

\* a call of an operation decorated with _train_required
GuardedCall(i) ==
    /\ Exists(objs[i])
    /\ last' = [Call("guarded", i, IF TrainRequired(objs[i].d) THEN "ok" ELSE "RuntimeError")
                   EXCEPT !.ran = TrainRequired(objs[i].d)]
    /\ UNCHANGED <<objs, inits, doc, pkl, enc>>

\* c.dump_yaml(filename)
DumpYaml(i) ==
    /\ Exists(objs[i])
    /\ doc' = [cls |-> objs[i].cls, content |-> DumpInstanceToYaml(objs[i].d)]
    /\ last' = Call("dump_yaml", i, "ok")
    /\ UNCHANGED <<objs, inits, pkl, enc>>

\* cls.load_yaml(filename)
LoadYaml ==
    /\ Exists(doc)
    /\ ~Exists(objs[2])
    /\ LET r == GetInstanceFromYaml(doc.cls, doc.content)
       IN  /\ objs' = IF r.err THEN objs ELSE [objs EXCEPT ![2] = [cls |-> doc.cls, d |-> r.self]]
           /\ last' = Call("load_yaml", 2, IF r.err THEN "TypeError" ELSE "ok")
    /\ UNCHANGED <<inits, doc, pkl, enc>>

\* the loaded component goes out of scope
Discard ==
    /\ Exists(objs[2])
    /\ objs' = [objs EXCEPT ![2] = NoObj]
    /\ last' = Call("discard", 2, "ok")
    /\ UNCHANGED <<inits, doc, pkl, enc>>

Next ==
    \/ \E cls \in Classes, args \in PosArgs(MaxPos), kwargs \in KwArgs : Construct(cls, args, kwargs)
    \/ \E args \in PosArgs(MaxPos), kwargs \in KwArgs : Reinit(args, kwargs)
    \/ \E i \in 1..2, raises \in BOOLEAN : Train(i, raises)
    \/ \E i \in 1..2 : GuardedCall(i)
    \/ \E i \in 1..2 : DumpYaml(i)
    \/ LoadYaml
    \/ Discard

Spec == Init /\ [][Next]_vars

\* ---------------------------------------------------------------- binary files
\* c._post_init() on a word-vector encoder
PostInit(i, readable, file) ==
    /\ Exists(objs[i])
    /\ objs[i].cls.name = "Word2VecEncoder"
    /\ LET r == PostInitOf(objs[i].d, readable, file)
       IN  /\ objs' = [objs EXCEPT ![i].d = r.self]
           /\ last' = Call("post_init", i, r.err)
    /\ UNCHANGED <<inits, doc, pkl, enc>>

Truncated == [cls |-> [name |-> "truncated", store_args_kwargs |-> FALSE], content |-> <<>>]

\* c.dump(filename): open(filename, 'wb') creates or truncates the file before pickle.dump
\* calls __getstate__
Dump(i) ==
    /\ Exists(objs[i])
    /\ LET r == GetState(objs[i].cls, objs[i].d)
       IN  /\ pkl' = IF r.err THEN Truncated ELSE [cls |-> objs[i].cls, content |-> r.d]
           /\ last' = Call("dump", i, IF r.err THEN "KeyError" ELSE "ok")
    /\ UNCHANGED <<objs, inits, doc, enc>>

\* TrainableBase.load(filename)
Load ==
    /\ Exists(pkl)
    /\ ~Exists(objs[2])
    /\ IF pkl = Truncated
       THEN /\ last' = Call("load", 2, "EOFError")
            /\ objs' = objs
       ELSE /\ last' = Call("load", 2, "ok")
            /\ objs' = [objs EXCEPT ![2] = [cls |-> pkl.cls, d |-> SetState(pkl.cls, pkl.content)]]
    /\ UNCHANGED <<inits, doc, pkl, enc>>

PickleNext ==
    \/ \E cls \in Classes, args \in PosArgs(MaxPos), kwargs \in KwArgs : Construct(cls, args, kwargs)
    \/ \E i \in 1..2, raises \in BOOLEAN : Train(i, raises)
    \/ \E i \in 1..2, readable \in BOOLEAN, file \in FilesOf(MaxLinesPickle) : PostInit(i, readable, file)
    \/ \E i \in 1..2 : Dump(i)
    \/ Load
    \/ Discard

PickleSpec == Init /\ [][PickleNext]_vars

\* ---------------------------------------------------------------- the encoder alone
W2VClass == [name |-> "Word2VecEncoder", store_args_kwargs |-> FALSE]

EncCall(op, result) == [op |-> op, result |-> result, batch |-> <<>>, out |-> <<>>]

EncInit ==
    /\ objs = [i \in 1..2 |-> NoObj]
    /\ inits = 0
    /\ doc = NoFile
    /\ pkl = NoFile
    /\ last = Call("none", 0, "ok")
    /\ \E skiprows \in 0..MaxSkip, dimension \in 1..MaxDim, file \in FilesOf(MaxLines) :
          enc = [d |-> TypeCall(W2VClass, <<"m1", skiprows, 64, dimension>>, <<>>).self,
                 file |-> file, call |-> EncCall("construct", "ok")]

EncPostInit(readable) ==
    /\ LET r == PostInitOf(enc.d, readable, enc.file)
       IN  enc' = [enc EXCEPT !.d = r.self, !.call = EncCall("post_init", r.err)]
    /\ UNCHANGED <<objs, inits, doc, pkl, last>>

EncEncode(batch_tokens) ==
    /\ LET r == Encode(enc.d, batch_tokens)
       IN  enc' = [enc EXCEPT !.call = [EncCall("encode", r.err) EXCEPT !.batch = batch_tokens, !.out = r.out]]
    /\ UNCHANGED <<objs, inits, doc, pkl, last>>

EncNext ==
    \/ \E readable \in BOOLEAN : EncPostInit(readable)
    \/ \E batch_tokens \in Batches : EncEncode(batch_tokens)

EncSpec == EncInit /\ [][EncNext]_vars

\* ================================================================ properties

Cfg(o) == o.d["_init_kwargs_dict"]

\* The whitelisted properties of an object that differ from their declared defaults.
NonDefault(o) ==
    [k \in ((IF o.d["is_trained"] # FALSE THEN {"is_trained"} ELSE {})
            \cup (IF o.d["batch_size"] # None THEN {"batch_size"} ELSE {})) |-> o.d[k]]

\* C1: a call of an operation behind the requires-trained guard, made while the trained
\* flag is false, fails with the 'training is required' error and does not run the
\* operation; made right after a train() call that completed, it runs the operation and
\* returns normally.
C1_GuardedCall ==
    [][last'.op = "guarded" =>
          /\ ~objs[last'.id].d["is_trained"] => (last'.result = "RuntimeError" /\ ~last'.ran)
          /\ (last.op = "train" /\ last.result = "ok" /\ last.id = last'.id)
                => (last'.result = "ok" /\ last'.ran)]_vars

C1_Witness ==
    /\ last.op = "guarded"
    /\ last.result = "RuntimeError"
    /\ ~last.ran
    /\ ~objs[last.id].d["is_trained"]

\* C2: on a component of a class whose instances start untrained, a train() call that
\* does not raise leaves the component trained; a call entered untrained logs no 'trained
\* already' warning, a call entered trained logs it exactly once; the underlying train
\* operation runs in both cases.
C2_TrainWarnsOnce ==
    [][(last'.op = "train" /\ objs[last'.id].cls.name # "Word2VecEncoder") =>
          /\ last'.ran
          /\ last'.result = "ok" => objs'[last'.id].d["is_trained"]
          /\ last'.warnings = (IF objs[last'.id].d["is_trained"] THEN 1 ELSE 0)]_vars

\* A step that builds the component of slot 1 by a constructor call.
ConstructStep == ~Exists(objs[1]) /\ Exists(objs'[1])

\* A step in which the trained flag of a component that exists before and after it goes
\* from false to true.
BecomesTrained(i) ==
    /\ Exists(objs[i]) /\ Exists(objs'[i])
    /\ ~objs[i].d["is_trained"] /\ objs'[i].d["is_trained"]

\* C3 as stated: the trained flag is false right after the construction of every
\* component, the word-vector encoder included; it becomes true only by a train() call
\* that completes without error, and a train() call that raises leaves it as it was.
C3_Original ==
    [][/\ ConstructStep => ~objs'[1].d["is_trained"]
       /\ \A i \in 1..2 : BecomesTrained(i) =>
             (last'.op = "train" /\ last'.id = i /\ last'.result = "ok")
       /\ (last'.op = "train" /\ last'.result = "Error") =>
             objs'[last'.id].d["is_trained"] = objs[last'.id].d["is_trained"]]_vars

\* C3 amended: right after construction the trained flag is false for the base class and
\* for a subclass that does not assign it, and true for the word-vector encoder, whose
\* constructor sets it; on an existing component it goes from false to true only by a
\* train() call that completes without error, and a train() call that raises leaves it
\* as it was.
C3_TrainedFlag ==
    [][/\ ConstructStep => (objs'[1].d["is_trained"] <=> objs'[1].cls.name = "Word2VecEncoder")
       /\ \A i \in 1..2 : BecomesTrained(i) =>
             (last'.op = "train" /\ last'.id = i /\ last'.result = "ok")
       /\ (last'.op = "train" /\ last'.result = "Error") =>
             objs'[last'.id].d["is_trained"] = objs[last'.id].d["is_trained"]]_vars

C3_Witness ==
    /\ last.op = "construct"
    /\ last.result = "ok"
    /\ objs[1].cls.name = "Word2VecEncoder"
    /\ objs[1].d["is_trained"]

\* The declared parameters of a class's constructor, 'self', 'args' and 'kwargs' apart.
Declared(cls) == IF cls.name = "Word2VecEncoder" THEN Names(W2VParams) ELSE {}

\* The effective value of a declared parameter in a call.
Effective(k, args, kwargs) ==
    IF IndexOf(W2VParams, k) <= Len(args) THEN args[IndexOf(W2VParams, k)]
    ELSE IF k \in DOMAIN kwargs THEN kwargs[k]
    ELSE W2VDefaults[k]

\* The raw collection the last constructor of the chain with a non-empty one received:
\* the subclass passes on what its declared parameters did not take.
LastRawArgs(cls, args) ==
    IF cls.name = "Word2VecEncoder" /\ Len(args) > Len(W2VParams)
    THEN SubSeq(args, Len(W2VParams) + 1, Len(args)) ELSE args

LastRawKwargs(cls, kwargs) ==
    IF cls.name = "Word2VecEncoder" /\ DOMAIN kwargs \ Names(W2VParams) # {}
    THEN [k \in DOMAIN kwargs \ Names(W2VParams) |-> kwargs[k]] ELSE kwargs

\* C5: after a constructor call that succeeds, the captured configuration maps every
\* declared parameter to its effective value (positional, else keyword, else default);
\* a capture on an instance that already has a configuration is merged into it: no key
\* is lost and a key that is not captured again keeps its value; with store_args_kwargs
\* the non-empty raw positional and keyword collections are stored under 'args' and
\* 'kwargs', and without it they are not.
C5_CapturedConfiguration ==
    [][inits' = inits + 1 =>
          LET cls == objs'[1].cls
              new == Cfg(objs'[1])
              args == last'.args
              kwargs == last'.kwargs
              captured == Declared(cls)
                          \cup (IF cls.store_args_kwargs /\ args # <<>> THEN {"args"} ELSE {})
                          \cup (IF cls.store_args_kwargs /\ DOMAIN kwargs # {} THEN {"kwargs"} ELSE {})
          IN  /\ last'.result = "ok" =>
                    /\ Declared(cls) \subseteq DOMAIN new
                    /\ \A k \in Declared(cls) : new[k] = Effective(k, args, kwargs)
                    /\ (cls.store_args_kwargs /\ args # <<>>) =>
                          ("args" \in DOMAIN new /\ new["args"] = LastRawArgs(cls, args))
                    /\ (cls.store_args_kwargs /\ DOMAIN kwargs # {}) =>
                          ("kwargs" \in DOMAIN new /\ new["kwargs"] = LastRawKwargs(cls, kwargs))
                    /\ ~cls.store_args_kwargs => DOMAIN new = Declared(cls)
              /\ inits = 0 => DOMAIN new = captured
              /\ inits > 0 =>
                    /\ DOMAIN new = DOMAIN Cfg(objs[1]) \cup captured
                    /\ \A k \in DOMAIN Cfg(objs[1]) \ captured : new[k] = Cfg(objs[1])[k]]_vars

C5_Witness ==
    /\ last.op = "init"
    /\ last.result = "ok"
    /\ objs[1].cls.name = "Word2VecEncoder"
    /\ last.args # <<>>
    /\ last.kwargs = <<>>
    /\ "kwargs" \in DOMAIN Cfg(objs[1])
    /\ Cfg(objs[1])["model_dir"] = last.args[1]

\* C6: the document dump_yaml writes has no top-level key but 'parameter' and 'property';
\* 'parameter' is there exactly when the captured configuration is not empty and is that
\* configuration; 'property' is there exactly when the trained flag is not false or the
\* batch size is not None, and holds exactly those of the two that differ, with their
\* current values.
C6_StructuredDocument ==
    last.op = "dump_yaml" =>
        LET o == objs[last.id]
            c == doc.content
            differs == (IF o.d["is_trained"] # FALSE THEN {"is_trained"} ELSE {})
                       \cup (IF o.d["batch_size"] # None THEN {"batch_size"} ELSE {})
        IN  /\ DOMAIN c \subseteq {"parameter", "property"}
            /\ "parameter" \in DOMAIN c <=> DOMAIN Cfg(o) # {}
            /\ "parameter" \in DOMAIN c => c["parameter"] = Cfg(o)
            /\ "property" \in DOMAIN c <=> differs # {}
            /\ "property" \in DOMAIN c =>
                  /\ DOMAIN c["property"] = differs
                  /\ \A k \in differs : c["property"][k] = o.d[k]

C6_Witness ==
    /\ last.op = "dump_yaml"
    /\ "parameter" \notin DOMAIN doc.content
    /\ "property" \in DOMAIN doc.content
    /\ DOMAIN doc.content["property"] = {"is_trained"}

\* C4: load_yaml of a document dump_yaml wrote succeeds and yields a component whose
\* captured configuration and whose non-default whitelisted properties are those of the
\* component that was dumped, i.e. those the document records; the same holds when the
\* loaded component is dumped and loaded again.
C4_StructuredRoundTrip ==
    last.op = "load_yaml" =>
        /\ last.result = "ok"
        /\ Cfg(objs[2]) = Get(doc.content, "parameter", <<>>)
        /\ NonDefault(objs[2]) = Get(doc.content, "property", <<>>)

\* C7: load_yaml of a document dump_yaml wrote constructs the component without error,
\* and every entry of the document's 'property' section has its stored value on the
\* component returned.
C7_LoadStructured ==
    last.op = "load_yaml" =>
        /\ last.result # "TypeError"
        /\ Exists(objs[2])
        /\ \A k \in DOMAIN Get(doc.content, "property", <<>>) :
              objs[2].d[k] = doc.content["property"][k]

\* The attributes a class keeps out of its binary form.
Excluded(cls) ==
    {"logger", "memcached"}
    \cup (IF cls.name = "Word2VecEncoder" THEN {"word2vec_df", "empty"} ELSE {})

\* C8: dump of any component succeeds and persists every attribute but the logging and
\* cache handles (and the encoder's table and zero vector); load of that file yields a
\* component with the persisted attributes and with both handles.
C8_BinaryRoundTrip ==
    /\ last.op = "dump" =>
          /\ last.result = "ok"
          /\ pkl.content = Without(objs[last.id].d, Excluded(objs[last.id].cls))
    /\ last.op = "load" =>
          /\ last.result = "ok"
          /\ Without(objs[2].d, {"logger", "memcached"}) = pkl.content
          /\ {"logger", "memcached"} \subseteq DOMAIN objs[2].d

\* The rows of the file after the first skiprows rows that have at least dimension + 1 fields.
LongRows(file, skiprows, dimension) ==
    {i \in (skiprows + 1)..Len(file) : Len(file[i]) >= dimension + 1}

\* C9: after _post_init has read a file, every vector of the table has exactly
\* dimension entries and the table has as many entries as the file has rows, after the
\* first skiprows rows, with at least dimension + 1 fields.
C9_VectorTable ==
    (enc.call.op = "post_init" /\ enc.call.result = "ok") =>
        LET df == enc.d["word2vec_df"]
        IN  /\ \A t \in DOMAIN df : Len(df[t]) = enc.d["dimension"]
            /\ Cardinality(DOMAIN df)
                  = Cardinality(LongRows(enc.file, enc.d["skiprows"], enc.d["dimension"]))

\* C10: on an encoder whose table is loaded, encode returns, without raising, one vector of dimension entries per input
\* string, the zero vector for a string without tokens or with unknown tokens only.
C10_EncodeReturns ==
    (enc.call.op = "encode" /\ {"word2vec_df", "empty"} \subseteq DOMAIN enc.d) =>
        /\ enc.call.result = "ok"
        /\ Len(enc.call.out) = Len(enc.call.batch)
        /\ \A b \in 1..Len(enc.call.batch) :
              /\ Len(enc.call.out[b].sum) = enc.d["dimension"]
              /\ (\A i \in 1..Len(enc.call.batch[b]) :
                     enc.call.batch[b][i] \notin DOMAIN enc.d["word2vec_df"])
                    => enc.call.out[b].sum = Zeros(enc.d["dimension"])

====
